---- MODULE Spec2Model ----
(***************************************************************************)
(* Stack deployment of databricks_cli/stack/api.py (StackApi).             *)
(*                                                                         *)
(* Python dicts are TLA+ functions with string domains (records), so that  *)
(* "key in dict" is  key \in DOMAIN dict  and the empty dict is <<>>.      *)
(* Python lists are sequences.  Python's None is the value None below.     *)
(***************************************************************************)
EXTENDS Integers, Sequences, FiniteSets, TLC

\* ------------------------------------------------------------------------
\* Bounds of the model
\* ------------------------------------------------------------------------
MaxResources == 2      \* longest resource list of a configuration
MaxRuns == 2           \* deploy invocations in one behaviour
MaxOob == 1            \* changes made by others (remote jobs, configuration file)
MaxFaults == 1         \* transport errors in one behaviour
MaxValidated == 2      \* longest resource list handed to the validator alone

\* ------------------------------------------------------------------------
\* Constants of stack/api.py
\* ------------------------------------------------------------------------
STACK_STATUS_INSERT == "deployed"
JOBS_SERVICE == "jobs"
WORKSPACE_SERVICE == "workspace"
STACK_NAME == "name"
STACK_RESOURCES == "resources"
STACK_DEPLOYED == "deployed"
RESOURCE_ID == "id"
RESOURCE_SERVICE == "service"
RESOURCE_PROPERTIES == "properties"
RESOURCE_PHYSICAL_ID == "physical_id"
RESOURCE_DEPLOY_OUTPUT == "deploy_output"
RESOURCE_DEPLOY_TIMESTAMP == "timestamp"
CLI_VERSION_KEY == "cli_version"
CLI_VERSION == "version"

\* ------------------------------------------------------------------------
\* Python values
\* ------------------------------------------------------------------------
EmptyDict == <<>>
None == [py_none |-> TRUE]
\* Python truthiness of a dict-or-None value: None and {} are falsy.
Truthy(v) == v # None /\ DOMAIN v # {}
\* dict.update: the entries of upd replace those of d.
DictUpdate(d, upd) == upd @@ d

\* ------------------------------------------------------------------------
\* Validation (pure)
\* ------------------------------------------------------------------------
\* The loop of validate_config over stack_config['resources'], from entry k on:
\* the message of the first StackError raised, "" when none is.
RECURSIVE ValidateResourcesFrom(_, _)
ValidateResourcesFrom(resources, k) ==
    IF k > Len(resources) THEN ""
    ELSE IF RESOURCE_ID \notin DOMAIN resources[k]
         THEN "id doesn't exist in resource config"
    ELSE IF RESOURCE_SERVICE \notin DOMAIN resources[k]
         THEN "service doesn't exist in resource config"
    ELSE IF RESOURCE_PROPERTIES \notin DOMAIN resources[k]
         THEN "properties doesn't exist in resource config"
    ELSE ValidateResourcesFrom(resources, k + 1)

\* Mutant of validate_config: the loop forgets the 'service' check.
RECURSIVE ValidateResourcesNoService(_, _)
ValidateResourcesNoService(resources, k) ==
    IF k > Len(resources) THEN ""
    ELSE IF RESOURCE_ID \notin DOMAIN resources[k]
         THEN "id doesn't exist in resource config"
    ELSE IF RESOURCE_PROPERTIES \notin DOMAIN resources[k]
         THEN "properties doesn't exist in resource config"
    ELSE ValidateResourcesNoService(resources, k + 1)

validate_config_no_service(stack_config) ==
    IF STACK_NAME \notin DOMAIN stack_config THEN "'name' not in configuration"
    ELSE IF STACK_RESOURCES \notin DOMAIN stack_config
         THEN "'resources' not in configuration"
    ELSE ValidateResourcesNoService(stack_config[STACK_RESOURCES], 1)

\* validate_config: the message of the StackError it raises, "" when it returns.
validate_config(stack_config) ==
    IF STACK_NAME \notin DOMAIN stack_config THEN "'name' not in configuration"
    ELSE IF STACK_RESOURCES \notin DOMAIN stack_config
         THEN "'resources' not in configuration"
    ELSE ValidateResourcesFrom(stack_config[STACK_RESOURCES], 1)

\* The loop of validate_status over stack_status['deployed'], from entry k on.
RECURSIVE ValidateDeployedFrom(_, _)
ValidateDeployedFrom(deployed, k) ==
    IF k > Len(deployed) THEN ""
    ELSE IF RESOURCE_ID \notin DOMAIN deployed[k]
         THEN "id doesn't exist in deployed resource status"
    ELSE IF RESOURCE_SERVICE \notin DOMAIN deployed[k]
         THEN "service doesn't exist in deployed resource status"
    ELSE IF RESOURCE_PHYSICAL_ID \notin DOMAIN deployed[k]
         THEN "physical_id doesn't exist in deployed resource status"
    ELSE ValidateDeployedFrom(deployed, k + 1)

\* validate_status: the message of the StackError it raises, "" when it returns.
validate_status(stack_status) ==
    IF STACK_NAME \notin DOMAIN stack_status THEN "'name' not in status"
    ELSE IF STACK_RESOURCES \notin DOMAIN stack_status THEN "'resources' not in status"
    ELSE IF STACK_DEPLOYED \notin DOMAIN stack_status THEN "'deployed' not in status"
    ELSE ValidateDeployedFrom(stack_status[STACK_DEPLOYED], 1)

\* ------------------------------------------------------------------------
\* Identity index
\* ------------------------------------------------------------------------
\* The dict comprehension of _get_resource_to_status_map over the first k
\* entries of the deployed list: a later entry replaces an earlier one that has
\* the same (id, service) key.
RECURSIVE StatusMapUpTo(_, _)
StatusMapUpTo(deployed, k) ==
    IF k = 0 THEN EmptyDict
    ELSE (<<deployed[k][RESOURCE_ID], deployed[k][RESOURCE_SERVICE]>> :> deployed[k])
             @@ StatusMapUpTo(deployed, k - 1)

_get_resource_to_status_map(stack_status) ==
    StatusMapUpTo(stack_status[STACK_DEPLOYED], Len(stack_status[STACK_DEPLOYED]))

\* ------------------------------------------------------------------------
\* Status path
\* ------------------------------------------------------------------------
\* A path is the sequence of the pieces that '.' separates in it
\* (str.split('.')); list.insert(-1, x) puts x before the last piece, and
\* before the only piece when there is one.
_generate_stack_status_path(stack_path) ==
    SubSeq(stack_path, 1, Len(stack_path) - 1)
        \o <<STACK_STATUS_INSERT>>
        \o SubSeq(stack_path, Len(stack_path), Len(stack_path))

\* ------------------------------------------------------------------------
\* The remote, as the clients of StackApi see it
\* ------------------------------------------------------------------------
\* A thread of remote calls: the remote's state (jobs: job_id -> settings of
\* the jobs that exist, next: the job_id the next create returns, ws: the
\* workspace paths that exist), the calls made on jobs_client and
\* workspace_client so far, the exception raised ("" when none), the value
\* returned by the last call, and fault: the position of the call that meets a
\* transport error (0: none does).
\* A thread runs a driver in one piece, or call by call when other processes
\* use the remote in between: then replay holds what the calls already made
\* have returned, the driver is run again over these answers, makes its next
\* call on the remote as it is now, and is suspended at the call after it.
ThreadFrom(rs, fault, replay, stepwise) ==
    [jobs |-> rs.jobs, next |-> rs.next, ws |-> rs.ws,
     calls |-> <<>>, err |-> "", ret |-> None, prior |-> None, fault |-> fault,
     rets |-> <<>>, replay |-> replay, stepwise |-> stepwise]

Thread(rs, fault) == ThreadFrom(rs, fault, <<>>, FALSE)

Failing(th) == Len(th.calls) + 1 = th.fault

Raise(th, msg) == [th EXCEPT !.err = msg]

\* A call that raises: it is logged as failed and changes nothing remotely.
CallFails(th, op, arg, msg) ==
    [th EXCEPT !.calls = Append(@, [op |-> op, arg |-> arg, ok |-> FALSE]),
               !.err = msg]

Logged(th, op, arg) ==
    [th EXCEPT !.calls = Append(@, [op |-> op, arg |-> arg, ok |-> TRUE])]

\* The call has returned v.
Answered(th, v) == [th EXCEPT !.ret = v, !.rets = Append(@, v)]

\* The call was made in an earlier step of this driver: it returns what it
\* returned then.
Replaying(th) == Len(th.calls) < Len(th.replay)
Replay(th, op, arg) == Answered(Logged(th, op, arg), th.replay[Len(th.calls) + 1])

\* The driver has made its call of this step: it waits at the next one.
Suspending(th) == th.stepwise /\ Len(th.calls) > Len(th.replay)
Suspend(th) == [th EXCEPT !.err = "SUSPENDED"]

\* JobsApi._list_jobs_by_name: the job_ids of the remote jobs whose settings
\* carry the given name.
_list_jobs_by_name(th, job_name) ==
    IF Replaying(th) THEN Replay(th, "list", [name |-> job_name])
    ELSE IF Suspending(th) THEN Suspend(th)
    ELSE IF Failing(th) THEN CallFails(th, "list", [name |-> job_name], "HTTPError")
    ELSE Answered(Logged(th, "list", [name |-> job_name]),
                  {j \in DOMAIN th.jobs :
                       /\ "name" \in DOMAIN th.jobs[j]
                       /\ th.jobs[j]["name"] = job_name})

\* JobsApi.create_job: POST /jobs/create; the remote answers a fresh job_id.
create_job(th, json) ==
    IF Replaying(th) THEN Replay(th, "create", [new_settings |-> json])
    ELSE IF Suspending(th) THEN Suspend(th)
    ELSE IF Failing(th) THEN CallFails(th, "create", [new_settings |-> json], "HTTPError")
    ELSE [Answered(Logged(th, "create", [new_settings |-> json]), [job_id |-> th.next])
             EXCEPT !.jobs = (th.next :> json) @@ @,
                    !.next = @ + 1]

\* JobsApi.reset_job: POST /jobs/reset; a job_id the remote does not know is an
\* error.
reset_job(th, json) ==
    IF Replaying(th) THEN Replay(th, "reset", json)
    ELSE IF Suspending(th) THEN Suspend(th)
    ELSE IF Failing(th) THEN CallFails(th, "reset", json, "HTTPError")
    ELSE IF json["job_id"] \notin DOMAIN th.jobs
         THEN CallFails(th, "reset", json, "HTTPError: job not found")
    ELSE [Answered(Logged(th, "reset", json), None)
             EXCEPT !.jobs = (json["job_id"] :> json["new_settings"]) @@ @]

\* JobsApi.get_job
get_job(th, job_id) ==
    IF Replaying(th) THEN Replay(th, "get", [job_id |-> job_id])
    ELSE IF Suspending(th) THEN Suspend(th)
    ELSE IF Failing(th) THEN CallFails(th, "get", [job_id |-> job_id], "HTTPError")
    ELSE IF job_id \notin DOMAIN th.jobs
         THEN CallFails(th, "get", [job_id |-> job_id], "HTTPError: job not found")
    ELSE Answered(Logged(th, "get", [job_id |-> job_id]),
                  [job_id |-> job_id, settings |-> th.jobs[job_id]])

\* WorkspaceApi.mkdirs
mkdirs(th, workspace_path) ==
    IF Replaying(th) THEN Replay(th, "mkdirs", [path |-> workspace_path])
    ELSE IF Suspending(th) THEN Suspend(th)
    ELSE IF Failing(th) THEN CallFails(th, "mkdirs", [path |-> workspace_path], "HTTPError")
    ELSE [Answered(Logged(th, "mkdirs", [path |-> workspace_path]), None)
             EXCEPT !.ws = @ \cup {workspace_path}]

\* The arguments of WorkspaceApi.import_workspace, as the call log keeps them.
ImportArg(source_path, target_path, language, fmt, is_overwrite) ==
    [source_path |-> source_path, target_path |-> target_path,
     language |-> language, fmt |-> fmt, overwrite |-> is_overwrite]

\* WorkspaceApi.import_workspace
import_workspace(th, source_path, target_path, language, fmt, is_overwrite) ==
    IF Replaying(th)
    THEN Replay(th, "import_workspace",
                ImportArg(source_path, target_path, language, fmt, is_overwrite))
    ELSE IF Suspending(th) THEN Suspend(th)
    ELSE IF Failing(th)
    THEN CallFails(th, "import_workspace",
                   ImportArg(source_path, target_path, language, fmt, is_overwrite),
                   "HTTPError")
    ELSE [Answered(Logged(th, "import_workspace",
                          ImportArg(source_path, target_path, language, fmt,
                                    is_overwrite)), None)
             EXCEPT !.ws = @ \cup {target_path}]

\* The arguments of WorkspaceApi.import_workspace_dir, as the call log keeps
\* them.
ImportDirArg(source_path, target_path, overwrite, exclude_hidden_files) ==
    [source_path |-> source_path, target_path |-> target_path,
     overwrite |-> overwrite, exclude_hidden_files |-> exclude_hidden_files]

\* WorkspaceApi.import_workspace_dir
import_workspace_dir(th, source_path, target_path, overwrite, exclude_hidden_files) ==
    IF Replaying(th)
    THEN Replay(th, "import_workspace_dir",
                ImportDirArg(source_path, target_path, overwrite, exclude_hidden_files))
    ELSE IF Suspending(th) THEN Suspend(th)
    ELSE IF Failing(th)
    THEN CallFails(th, "import_workspace_dir",
                   ImportDirArg(source_path, target_path, overwrite,
                                exclude_hidden_files), "HTTPError")
    ELSE [Answered(Logged(th, "import_workspace_dir",
                          ImportDirArg(source_path, target_path, overwrite,
                                       exclude_hidden_files)), None)
             EXCEPT !.ws = @ \cup {target_path}]

\* WorkspaceApi.get_status_json
get_status_json(th, workspace_path) ==
    IF Replaying(th) THEN Replay(th, "get_status", [path |-> workspace_path])
    ELSE IF Suspending(th) THEN Suspend(th)
    ELSE IF Failing(th)
    THEN CallFails(th, "get_status", [path |-> workspace_path], "HTTPError")
    ELSE IF workspace_path \notin th.ws
         THEN CallFails(th, "get_status", [path |-> workspace_path],
                        "HTTPError: path not found")
    ELSE Answered(Logged(th, "get_status", [path |-> workspace_path]),
                  [path |-> workspace_path])

\* ------------------------------------------------------------------------
\* The local file system the workspace driver looks at
\* ------------------------------------------------------------------------
\* A local path is the sequence of its '.'-separated pieces; a workspace path
\* is the sequence of its '/'-separated components.
LocalDirs == {<<"dir">>}
isdir(local_path) == local_path \in LocalDirs
dirname(workspace_path) == SubSeq(workspace_path, 1, Len(workspace_path) - 1)

\* WorkspaceLanguage.to_language_and_format: guessed from the extension.
to_language_and_format(local_path) ==
    LET ext == local_path[Len(local_path)]
    IN  IF Len(local_path) < 2 THEN None
        ELSE IF ext = "py" THEN <<"PYTHON", "SOURCE">>
        ELSE IF ext = "scala" THEN <<"SCALA", "SOURCE">>
        ELSE None

\* ------------------------------------------------------------------------
\* Resource drivers
\* ------------------------------------------------------------------------
\* A thread t that raised stays as it is; otherwise the value v is returned.
Returning(t, v) == IF t.err # "" THEN t ELSE [t EXCEPT !.ret = v]

update_job(th, job_settings, job_id) ==
    reset_job(th, [job_id |-> job_id, new_settings |-> job_settings])

\* Mutant of PutJobFound: a job is created whatever the search found.
PutJobAlwaysCreates(t1, job_settings) ==
    IF t1.err # "" THEN t1
    ELSE IF Cardinality(t1.ret) > 1
         THEN Raise(t1, "StackError: Multiple jobs with the same name")
    ELSE Returning(create_job(t1, job_settings), t1.next)

\* Mutant of PutJobFound: with several jobs of the name, one of them is updated.
PutJobTakesAnyMatch(t1, job_settings) ==
    IF t1.err # "" THEN t1
    ELSE IF Cardinality(t1.ret) >= 1
         THEN Returning(update_job(t1, job_settings, CHOOSE j \in t1.ret : TRUE),
                        CHOOSE j \in t1.ret : TRUE)
    ELSE Returning(create_job(t1, job_settings), t1.next)

\* The job_id in the answer of create_job, whose thread is t.
CreatedJobId(t) == IF t.err # "" THEN t ELSE [t EXCEPT !.ret = t.ret["job_id"]]

\* put_job after its call of _list_jobs_by_name, whose thread is t1.
PutJobFound(t1, job_settings) ==
    IF t1.err # "" THEN t1
    ELSE IF Cardinality(t1.ret) > 1
         THEN Raise(t1, "StackError: Multiple jobs with the same name")
    ELSE IF Cardinality(t1.ret) = 1
         THEN Returning(update_job(t1, job_settings, CHOOSE j \in t1.ret : TRUE),
                        CHOOSE j \in t1.ret : TRUE)
    ELSE CreatedJobId(create_job(t1, job_settings))

\* put_job: th.ret is the job_id it returns.
put_job(th, job_settings) ==
    IF "name" \notin DOMAIN job_settings
    THEN Raise(th, "StackError: Please supply 'name' in job resource")
    ELSE PutJobFound(_list_jobs_by_name(th, job_settings["name"]), job_settings)

\* The end of deploy_job: t2 is the thread of its get_job call.
DeployJobOutput(t2, job_id) ==
    IF t2.err # "" THEN t2 ELSE [t2 EXCEPT !.ret = <<[job_id |-> job_id], t2.ret>>]

\* deploy_job after its update_job or put_job, whose thread is t1 and has
\* returned the job_id.
DeployJobGet(t1) ==
    IF t1.err # "" THEN t1 ELSE DeployJobOutput(get_job(t1, t1.ret), t1.ret)

\* Mutant of deploy_job: a job is created also when a physical_id is known.
deploy_job_recreates(th, resource_properties, physical_id) ==
    DeployJobGet(Returning(create_job(th, resource_properties), th.next))

\* Mutant of deploy_job: the physical_id is ignored and the job is always
\* looked for by name.
deploy_job_searches(th, resource_properties, physical_id) ==
    DeployJobGet(put_job(th, resource_properties))

\* deploy_job: th.ret is the tuple (physical_id, deploy_output).
deploy_job(th, resource_properties, physical_id) ==
    DeployJobGet(
        IF Truthy(physical_id)
        THEN IF "job_id" \notin DOMAIN physical_id
             THEN Raise(th, "KeyError: job_id")
             ELSE Returning(update_job(th, resource_properties, physical_id["job_id"]),
                            physical_id["job_id"])
        ELSE put_job(th, resource_properties))

\* The end of deploy_workspace: t2 is the thread of its get_status_json call.
DeployWorkspaceOutput(t2, workspace_path) ==
    IF t2.err # "" THEN t2 ELSE [t2 EXCEPT !.ret = <<[path |-> workspace_path], t2.ret>>]

\* deploy_workspace after its import, whose thread is t1.
DeployWorkspaceStatus(t1, workspace_path, physical_id) ==
    IF t1.err # "" THEN t1
    ELSE IF Truthy(physical_id) /\ "path" \notin DOMAIN physical_id
    THEN Raise(t1, "KeyError: path")
    ELSE DeployWorkspaceOutput(get_status_json(t1, workspace_path), workspace_path)

\* The import of a NOTEBOOK: m is the thread of the mkdirs call.
ImportNotebook(m, local_path, workspace_path, language, fmt, overwrite) ==
    IF m.err # "" THEN m
    ELSE import_workspace(m, local_path, workspace_path, language, fmt, overwrite)

\* deploy_workspace once language, format and object type are settled.
DeployWorkspaceAs(th, local_path, workspace_path, language, fmt, object_type, physical_id, overwrite) ==
    DeployWorkspaceStatus(
        IF object_type = "NOTEBOOK"
        THEN ImportNotebook(mkdirs(th, dirname(workspace_path)), local_path,
                            workspace_path, language, fmt, overwrite)
        ELSE IF object_type = "DIRECTORY"
        THEN import_workspace_dir(th, local_path, workspace_path, overwrite, TRUE)
        ELSE th,
        workspace_path, physical_id)

\* The language and format deploy_workspace settles on.
LanguageOf(resource_properties, lang_fmt) ==
    IF "language" \in DOMAIN resource_properties THEN resource_properties["language"]
    ELSE IF lang_fmt # None THEN lang_fmt[1] ELSE None

FormatOf(resource_properties, lang_fmt) ==
    IF "format" \in DOMAIN resource_properties THEN resource_properties["format"]
    ELSE IF lang_fmt # None THEN lang_fmt[2] ELSE None

\* Mutant of ObjectTypeOf: the 'object_type' property is ignored.
ObjectTypeGuessed(resource_properties) ==
    IF isdir(resource_properties["source_path"]) THEN "DIRECTORY" ELSE "NOTEBOOK"

ObjectTypeOf(resource_properties) ==
    IF "object_type" \in DOMAIN resource_properties
    THEN resource_properties["object_type"]
    ELSE IF isdir(resource_properties["source_path"]) THEN "DIRECTORY" ELSE "NOTEBOOK"

\* deploy_workspace: th.ret is the tuple (physical_id, deploy_output).
deploy_workspace(th, resource_properties, physical_id, overwrite) ==
    IF "source_path" \notin DOMAIN resource_properties
    THEN Raise(th, "StackError: 'source_path' doesn't exist in workspace resource properties")
    ELSE IF "path" \notin DOMAIN resource_properties
    THEN Raise(th, "StackError: 'path' doesn't exist in workspace resource properties")
    ELSE DeployWorkspaceAs(
             th, resource_properties["source_path"], resource_properties["path"],
             LanguageOf(resource_properties,
                        to_language_and_format(resource_properties["source_path"])),
             FormatOf(resource_properties,
                      to_language_and_format(resource_properties["source_path"])),
             ObjectTypeOf(resource_properties), physical_id, overwrite)

\* The prior physical_id deploy_resource hands to the driver.
PriorPhysicalId(resource_status) ==
    IF Truthy(resource_status) THEN resource_status[RESOURCE_PHYSICAL_ID] ELSE None

\* The end of deploy_resource: t1 is the thread of the driver.
NewResourceStatus(t1, resource_config, now) ==
    IF t1.err # "" THEN t1
    ELSE [t1 EXCEPT !.ret =
             [id |-> resource_config[RESOURCE_ID],
              service |-> resource_config[RESOURCE_SERVICE],
              timestamp |-> now,
              physical_id |-> t1.ret[1],
              deploy_output |-> t1.ret[2]]]

\* Mutant of Dispatch: a resource of an unsupported service is skipped without
\* an error.
DispatchSkips(th, resource_config, physical_id, overwrite) ==
    IF resource_config[RESOURCE_SERVICE] = JOBS_SERVICE
    THEN deploy_job([th EXCEPT !.prior = physical_id],
                    resource_config[RESOURCE_PROPERTIES], physical_id)
    ELSE IF resource_config[RESOURCE_SERVICE] = WORKSPACE_SERVICE
    THEN deploy_workspace([th EXCEPT !.prior = physical_id],
                          resource_config[RESOURCE_PROPERTIES], physical_id, overwrite)
    ELSE [th EXCEPT !.ret = <<EmptyDict, EmptyDict>>]

\* The dispatch of deploy_resource on the service.
Dispatch(th, resource_config, physical_id, overwrite) ==
    IF resource_config[RESOURCE_SERVICE] = JOBS_SERVICE
    THEN deploy_job([th EXCEPT !.prior = physical_id],
                    resource_config[RESOURCE_PROPERTIES], physical_id)
    ELSE IF resource_config[RESOURCE_SERVICE] = WORKSPACE_SERVICE
    THEN deploy_workspace([th EXCEPT !.prior = physical_id],
                          resource_config[RESOURCE_PROPERTIES], physical_id, overwrite)
    ELSE Raise(th, "StackError: Resource service not supported")

\* deploy_resource: th.ret is new_resource_status; th.prior records the
\* physical_id that was handed to the driver.
deploy_resource(th, resource_config, resource_status, overwrite, now) ==
    NewResourceStatus(
        Dispatch(th, resource_config, PriorPhysicalId(resource_status), overwrite),
        resource_config, now)

\* Mutant of LookupStatus: the index is searched by id alone.
LookupStatusById(resource_id_to_status, resource_config) ==
    IF \E key \in DOMAIN resource_id_to_status : key[1] = resource_config[RESOURCE_ID]
    THEN resource_id_to_status[CHOOSE key \in DOMAIN resource_id_to_status :
                                   key[1] = resource_config[RESOURCE_ID]]
    ELSE None

\* The lookup of deploy_config in the identity index.
LookupStatus(resource_id_to_status, resource_config) ==
    LET resource_map_key ==
            <<resource_config[RESOURCE_ID], resource_config[RESOURCE_SERVICE]>>
    IN  IF resource_map_key \in DOMAIN resource_id_to_status
        THEN resource_id_to_status[resource_map_key]
        ELSE None

\* ------------------------------------------------------------------------
\* Inputs: configurations, prior status files, remotes
\* ------------------------------------------------------------------------
JobA == [id |-> "a", service |-> "jobs", properties |-> [name |-> "X"]]
JobB == [id |-> "b", service |-> "jobs", properties |-> [name |-> "Y"]]
\* the key of JobA under the job name of JobB
JobA2 == [id |-> "a", service |-> "jobs", properties |-> [name |-> "Y"]]
WsA == [id |-> "a", service |-> "workspace",
        properties |-> [source_path |-> <<"nb", "py">>, path |-> <<"Users", "nb">>]]
NoNameJob == [id |-> "c", service |-> "jobs", properties |-> EmptyDict]
Unsupported == [id |-> "c", service |-> "dbfs", properties |-> EmptyDict]
NoId == [service |-> "jobs", properties |-> [name |-> "X"]]
NoService == [id |-> "a", properties |-> [name |-> "X"]]
NoProperties == [id |-> "a", service |-> "jobs"]

WellFormedResources == {JobA, JobB, JobA2, WsA, NoNameJob, Unsupported}
BrokenResources == {NoId, NoService, NoProperties}
ResourcePool == WellFormedResources \cup {NoProperties}

SeqsUpTo(S, n) == UNION {[1..k -> S] : k \in 0..n}

ConfigDocs ==
    {[name |-> "s", resources |-> rs] : rs \in SeqsUpTo(ResourcePool, MaxResources)}
        \cup {EmptyDict, [name |-> "s"], [resources |-> <<JobA>>]}

StatusDoc(deployed) == [name |-> "s", resources |-> <<>>, deployed |-> deployed,
                        cli_version |-> CLI_VERSION]
StatusEntry(id, service, physical_id) ==
    [id |-> id, service |-> service, physical_id |-> physical_id,
     timestamp |-> 0, deploy_output |-> EmptyDict]

\* Status files found on disk before the first run: left by an earlier
\* deployment, or edited by hand.
PriorStatusDocs ==
    { EmptyDict,
      [name |-> "s", resources |-> <<>>],
      StatusDoc(<<[id |-> "a", service |-> "jobs"]>>),
      StatusDoc(<<StatusEntry("a", "jobs", [job_id |-> 1])>>),
      StatusDoc(<<StatusEntry("a", "jobs", EmptyDict)>>),
      StatusDoc(<<StatusEntry("a", "workspace", [path |-> <<"Users", "nb">>]),
                  StatusEntry("b", "jobs", [job_id |-> 1])>>),
      StatusDoc(<<StatusEntry("a", "jobs", [job_id |-> 1]),
                  StatusEntry("a", "jobs", [job_id |-> 2])>>) }

JobNames == {"X", "Y"}
\* Settings of a job somebody else created.
OobSettings(job_name) == [name |-> job_name, timeout_seconds |-> 60]

FirstFreeJobId == 3
InitRemotes ==
    { [jobs |-> EmptyDict, next |-> FirstFreeJobId, ws |-> {}],
      [jobs |-> (1 :> OobSettings("X")), next |-> FirstFreeJobId, ws |-> {}],
      [jobs |-> (1 :> OobSettings("X")) @@ (2 :> OobSettings("X")),
       next |-> FirstFreeJobId, ws |-> {}] }

\* ------------------------------------------------------------------------
\* State
\* ------------------------------------------------------------------------
Procs == {1, 2}
MainProc == 1
ConfigPath == <<"stack", "json">>
CliCwd == "cli_cwd"
ConfigDir == "config_dir"

VARIABLES
    files,     \* the disk: path -> parsed JSON document of the files that exist
    remote,    \* the Databricks side: [jobs, next, ws]
    proc,      \* per process: where its deploy() call stands, and its locals
    runs,      \* history: one record per deploy() call that has ended
    budget,    \* history: [runs, oob, faults] spent so far, and oobSince
    argv       \* the command line of deploy: [config_path, overwrite]

vars == <<files, remote, proc, runs, budget, argv>>

Idle == [pc |-> "idle", cwd |-> CliCwd]

\* _load_json: {} when the path does not exist
_load_json(path) == IF path \in DOMAIN files THEN files[path] ELSE EmptyDict

\* Mutant of _save_json: a file that exists is left alone.
_save_json_exclusive(path, data) ==
    IF path \in DOMAIN files THEN files ELSE (path :> data) @@ files

\* _save_json: the file's new content
_save_json(path, data) == (path :> data) @@ files

Init ==
    /\ \E c \in ConfigDocs :
       \E s \in {<<>>} \cup {<<d>> : d \in PriorStatusDocs} :
          files = IF s = <<>>
                  THEN (ConfigPath :> c)
                  ELSE (ConfigPath :> c)
                           @@ (_generate_stack_status_path(ConfigPath) :> s[1])
    /\ remote \in InitRemotes
    /\ proc = [p \in Procs |-> Idle]
    /\ runs = <<>>
    /\ budget = [runs |-> 0, oob |-> 0, faults |-> 0, oobSince |-> FALSE]
    /\ argv \in [config_path : {ConfigPath}, overwrite : BOOLEAN]

\* The record of a deploy() call that has ended: me holds the locals of the
\* call; status is the document it produced, wrote tells whether it saved it.
\* config is the configuration as it was loaded, stack_config the object that
\* was handed to deploy_config as it is when the call ends.
RunRecord(p, me, steps, err, status, wrote) ==
    [proc |-> p, config |-> me.loaded_config, stack_config |-> me.stack_config,
     prior |-> me.stack_status,
     priorExists |-> me.status_exists, overwrite |-> me.overwrite,
     steps |-> steps, err |-> err, status |-> status, wrote |-> wrote,
     oobBefore |-> me.oobBefore, oobDuring |-> budget.oobSince]

\* The locals of deploy and deploy_config when the loop starts.
Started(config_path, overwrite, stack_config, status_path, stack_status) ==
    [pc |-> "deploying", cwd |-> ConfigDir,
     config_path |-> config_path, status_path |-> status_path,
     overwrite |-> overwrite,
     stack_config |-> stack_config, loaded_config |-> stack_config,
     stack_status |-> stack_status, status_exists |-> status_path \in DOMAIN files,
     resource_id_to_status |->
         IF Truthy(stack_status) /\ validate_config(stack_config) = ""
                                 /\ validate_status(stack_status) = ""
         THEN _get_resource_to_status_map(stack_status)
         ELSE EmptyDict,
     resource_statuses |-> <<>>, steps |-> <<>>,
     oobBefore |-> budget.oobSince]

\* Mutant of ValidationError: the status is validated whether or not a status
\* file was found.
ValidationErrorAlways(stack_config, stack_status) ==
    IF validate_config(stack_config) # "" THEN validate_config(stack_config)
    ELSE validate_status(stack_status)

\* The StackError of the validations that open deploy_config, "" when none.
ValidationError(stack_config, stack_status) ==
    IF validate_config(stack_config) # "" THEN validate_config(stack_config)
    ELSE IF Truthy(stack_status) THEN validate_status(stack_status)
    ELSE ""

DeployBeginWith(p, me) ==
    IF ValidationError(me.stack_config, me.stack_status) # ""
    THEN /\ proc' = [proc EXCEPT ![p] = Idle]
         /\ runs' = Append(runs, RunRecord(p, me, <<>>,
                           ValidationError(me.stack_config, me.stack_status),
                           EmptyDict, FALSE))
    ELSE /\ proc' = [proc EXCEPT ![p] = me]
         /\ runs' = runs

\* deploy(), lines 380-387, and deploy_config up to its loop: change directory,
\* load both files, validate, build the identity index.  A validation error
\* leaves through the except clause, which restores the directory.
DeployBegin(p) ==
    /\ proc[p].pc = "idle"
    /\ budget.runs < MaxRuns
    /\ DeployBeginWith(p,
           Started(argv.config_path, argv.overwrite,
                   _load_json(argv.config_path),
                   _generate_stack_status_path(argv.config_path),
                   _load_json(_generate_stack_status_path(argv.config_path))))
    /\ budget' = [budget EXCEPT !.runs = @ + 1, !.oobSince = FALSE]
    /\ UNCHANGED <<files, remote, argv>>

\* The most remote calls one resource makes (put_job: list, create or reset, get).
MaxCalls == 3

\* What an iteration of the loop of deploy_config records about itself.
StepRecord(th, resource_config, jobs_before) ==
    [key |-> <<resource_config[RESOURCE_ID], resource_config[RESOURCE_SERVICE]>>,
     prior |-> th.prior, calls |-> th.calls, err |-> th.err,
     before |-> jobs_before, after |-> th.jobs,
     physical_id |-> IF th.err = "" THEN th.ret[RESOURCE_PHYSICAL_ID] ELSE None]

Faulted(th) ==
    th.fault > 0 /\ th.fault <= Len(th.calls) /\ ~th.calls[th.fault].ok

\* Mutant of DeployResourceDone: an exception of deploy_resource is caught, the
\* resource is recorded as failed and the loop goes on.
DeployResourceCatches(p, me, th, step) ==
    /\ th.fault > 0 => Faulted(th) /\ budget.faults < MaxFaults
    /\ remote' = [jobs |-> th.jobs, next |-> th.next, ws |-> th.ws]
    /\ budget' = [budget EXCEPT !.faults = IF Faulted(th) THEN @ + 1 ELSE @]
    /\ proc' = [proc EXCEPT
                  ![p].resource_statuses =
                      Append(@, IF th.err = "" THEN th.ret
                                ELSE [id |-> step.key[1], service |-> step.key[2],
                                      physical_id |-> EmptyDict, success |-> FALSE,
                                      error_message |-> th.err]),
                  ![p].steps = Append(@, step)]
    /\ runs' = runs

\* Mutant of DeployResourceDone: deploy has no except clause, so an exception
\* of deploy_resource leaves the process in the directory of the configuration.
DeployResourceNoRestore(p, me, th, step) ==
    /\ th.fault > 0 => Faulted(th) /\ budget.faults < MaxFaults
    /\ remote' = [jobs |-> th.jobs, next |-> th.next, ws |-> th.ws]
    /\ budget' = [budget EXCEPT !.faults = IF Faulted(th) THEN @ + 1 ELSE @,
                                !.oobSince = IF th.err # "" THEN FALSE ELSE @]
    /\ IF th.err # ""
       THEN /\ proc' = [proc EXCEPT ![p] = [pc |-> "idle", cwd |-> me.cwd]]
            /\ runs' = Append(runs, RunRecord(p, me, Append(me.steps, step), th.err,
                              EmptyDict, FALSE))
       ELSE /\ proc' = [proc EXCEPT ![p].resource_statuses = Append(@, th.ret),
                                    ![p].steps = Append(@, step)]
            /\ runs' = runs

\* The iteration once deploy_resource has run to th.
DeployResourceDone(p, me, th, step) ==
    /\ th.fault > 0 => Faulted(th) /\ budget.faults < MaxFaults
    /\ remote' = [jobs |-> th.jobs, next |-> th.next, ws |-> th.ws]
    /\ budget' = [budget EXCEPT !.faults = IF Faulted(th) THEN @ + 1 ELSE @,
                                !.oobSince = IF th.err # "" THEN FALSE ELSE @]
    /\ IF th.err # ""
       THEN /\ proc' = [proc EXCEPT ![p] = Idle]
            /\ runs' = Append(runs, RunRecord(p, me, Append(me.steps, step), th.err,
                              EmptyDict, FALSE))
       ELSE /\ proc' = [proc EXCEPT ![p].resource_statuses = Append(@, th.ret),
                                    ![p].steps = Append(@, step)]
            /\ runs' = runs

DeployResourceWith(p, me, th, resource_config) ==
    DeployResourceDone(p, me, th, StepRecord(th, resource_config, remote.jobs))

DeployResourceOf(p, me, resource_config, fault) ==
    DeployResourceWith(p, me,
        deploy_resource(Thread(remote, fault), resource_config,
                        LookupStatus(me.resource_id_to_status, resource_config),
                        me.overwrite, budget.runs),
        resource_config)

\* Mutant of DeployResource: the loop takes the resources last to first.
DeployResourceReversed(p) ==
    /\ proc[p].pc = "deploying"
    /\ Len(proc[p].resource_statuses) < Len(proc[p].stack_config[STACK_RESOURCES])
    /\ \E fault \in 0..MaxCalls :
          DeployResourceOf(p, proc[p],
              proc[p].stack_config[STACK_RESOURCES][
                  Len(proc[p].stack_config[STACK_RESOURCES])
                      - Len(proc[p].resource_statuses)],
              fault)
    /\ UNCHANGED <<files, argv>>

\* Mutant of DeployResource: the statuses gathered so far are saved before each
\* resource is deployed.
DeployResourceSaves(p) ==
    /\ proc[p].pc = "deploying"
    /\ Len(proc[p].resource_statuses) < Len(proc[p].stack_config[STACK_RESOURCES])
    /\ \E fault \in 0..MaxCalls :
          DeployResourceOf(p, proc[p],
              proc[p].stack_config[STACK_RESOURCES][Len(proc[p].resource_statuses) + 1],
              fault)
    /\ files' = _save_json(proc[p].status_path,
                           DictUpdate(proc[p].stack_config,
                                      (STACK_DEPLOYED :> proc[p].resource_statuses)))
    /\ argv' = argv

\* One iteration of the loop of deploy_config: look the resource up in the
\* index and deploy it.  An exception leaves deploy_config and deploy; the
\* except clause of deploy restores the directory and re-raises.
DeployResource(p) ==
    /\ proc[p].pc = "deploying"
    /\ Len(proc[p].resource_statuses) < Len(proc[p].stack_config[STACK_RESOURCES])
    /\ \E fault \in 0..MaxCalls :
          DeployResourceOf(p, proc[p],
              proc[p].stack_config[STACK_RESOURCES][Len(proc[p].resource_statuses) + 1],
              fault)
    /\ UNCHANGED <<files, argv>>

\* Mutant of NewStackStatus: the status is built from the resource statuses
\* alone, without the configuration.
NewStackStatusBare(stack_config, resource_statuses) ==
    (STACK_DEPLOYED :> resource_statuses) @@ (CLI_VERSION_KEY :> CLI_VERSION)

\* The status deploy_config assembles: the configuration object with
\* 'deployed' and 'cli_version' put into it.
NewStackStatus(stack_config, resource_statuses) ==
    DictUpdate(DictUpdate(stack_config, (STACK_DEPLOYED :> resource_statuses)),
               (CLI_VERSION_KEY :> CLI_VERSION))

\* new_stack_status is the object stack_config itself (line 358 copies the
\* reference, not the dict), so the updates of lines 359-360 are updates of
\* the caller's configuration.
DeployFinishWith(p, me, new_stack_status) ==
    IF validate_status(new_stack_status) = ""
    THEN /\ files' = _save_json(me.status_path, new_stack_status)
         /\ runs' = Append(runs, RunRecord(p, [me EXCEPT !.stack_config = new_stack_status],
                                           me.steps, "", new_stack_status, TRUE))
    ELSE /\ files' = files
         /\ runs' = Append(runs, RunRecord(p, [me EXCEPT !.stack_config = new_stack_status],
                                           me.steps, validate_status(new_stack_status),
                                           EmptyDict, FALSE))

\* The prior status entries whose (id, service) the configuration no longer has.
RECURSIVE StaleEntries(_, _)
StaleEntries(deployed, resources) ==
    IF deployed = <<>> THEN <<>>
    ELSE IF \E i \in 1..Len(resources) :
               /\ resources[i][RESOURCE_ID] = Head(deployed)[RESOURCE_ID]
               /\ resources[i][RESOURCE_SERVICE] = Head(deployed)[RESOURCE_SERVICE]
         THEN StaleEntries(Tail(deployed), resources)
         ELSE <<Head(deployed)>> \o StaleEntries(Tail(deployed), resources)

\* Mutant of DeployFinish: the entries of the prior status that the
\* configuration no longer has are carried over into the new status.
DeployFinishKeepsStale(p) ==
    /\ proc[p].pc = "deploying"
    /\ Len(proc[p].resource_statuses) = Len(proc[p].stack_config[STACK_RESOURCES])
    /\ DeployFinishWith(p, proc[p],
           NewStackStatus(proc[p].stack_config,
               proc[p].resource_statuses
                   \o (IF Truthy(proc[p].stack_status)
                       THEN StaleEntries(proc[p].stack_status[STACK_DEPLOYED],
                                         proc[p].stack_config[STACK_RESOURCES])
                       ELSE <<>>)))
    /\ proc' = [proc EXCEPT ![p] = Idle]
    /\ budget' = [budget EXCEPT !.oobSince = FALSE]
    /\ UNCHANGED <<remote, argv>>

\* The end of deploy_config and of deploy: the status is assembled, validated
\* and saved, and the directory is restored.
DeployFinish(p) ==
    /\ proc[p].pc = "deploying"
    /\ Len(proc[p].resource_statuses) = Len(proc[p].stack_config[STACK_RESOURCES])
    /\ DeployFinishWith(p, proc[p],
                        NewStackStatus(proc[p].stack_config, proc[p].resource_statuses))
    /\ proc' = [proc EXCEPT ![p] = Idle]
    /\ budget' = [budget EXCEPT !.oobSince = FALSE]
    /\ UNCHANGED <<remote, argv>>

\* Somebody else deletes a remote job.
OobDeleteJob ==
    /\ budget.oob < MaxOob
    /\ \E j \in DOMAIN remote.jobs :
          remote' = [remote EXCEPT !.jobs = [k \in DOMAIN remote.jobs \ {j} |-> @[k]]]
    /\ budget' = [budget EXCEPT !.oob = @ + 1, !.oobSince = TRUE]
    /\ UNCHANGED <<files, proc, runs, argv>>

\* Somebody else creates a remote job.
OobCreateJob ==
    /\ budget.oob < MaxOob
    /\ \E n \in JobNames :
          remote' = [remote EXCEPT !.jobs = (remote.next :> OobSettings(n)) @@ @,
                                   !.next = @ + 1]
    /\ budget' = [budget EXCEPT !.oob = @ + 1, !.oobSince = TRUE]
    /\ UNCHANGED <<files, proc, runs, argv>>

\* The author removes a resource from the configuration file, between two
\* deployments.
EditConfig ==
    /\ budget.oob < MaxOob
    /\ \A p \in Procs : proc[p].pc = "idle"
    /\ ConfigPath \in DOMAIN files
    /\ STACK_RESOURCES \in DOMAIN files[ConfigPath]
    /\ \E i \in 1..Len(files[ConfigPath][STACK_RESOURCES]) :
          LET rs == files[ConfigPath][STACK_RESOURCES]
              rest == SubSeq(rs, 1, i - 1) \o SubSeq(rs, i + 1, Len(rs))
          IN  files' = [files EXCEPT ![ConfigPath] =
                           DictUpdate(@, (STACK_RESOURCES :> rest))]
    /\ budget' = [budget EXCEPT !.oob = @ + 1]
    /\ UNCHANGED <<remote, proc, runs, argv>>

Next ==
    \/ DeployBegin(MainProc)
    \/ DeployResource(MainProc)
    \/ DeployFinish(MainProc)
    \/ OobDeleteJob
    \/ OobCreateJob
    \/ EditConfig

Spec == Init /\ [][Next]_vars

\* ------------------------------------------------------------------------
\* Two deploy processes on the same stack
\* ------------------------------------------------------------------------
\* Two shells run `stack deploy` on the same configuration file; the steps of
\* the two calls interleave freely, nothing locks the status file.
ConcurrentConfigs ==
    {[name |-> "s", resources |-> rs] : rs \in {<<JobA>>, <<JobA, JobB>>, <<WsA, JobB>>}}

ConcurrentStatusDocs == {StatusDoc(<<StatusEntry("a", "jobs", [job_id |-> 1])>>)}

InitConcurrent ==
    /\ \E c \in ConcurrentConfigs :
       \E s \in {<<>>} \cup {<<d>> : d \in ConcurrentStatusDocs} :
          files = IF s = <<>>
                  THEN (ConfigPath :> c)
                  ELSE (ConfigPath :> c)
                           @@ (_generate_stack_status_path(ConfigPath) :> s[1])
    /\ remote \in InitRemotes
    /\ proc = [p \in Procs |-> Idle]
    /\ runs = <<>>
    /\ budget = [runs |-> 0, oob |-> 0, faults |-> 0, oobSince |-> FALSE]
    /\ argv \in [config_path : {ConfigPath}, overwrite : BOOLEAN]

\* What the calls of the resource that process me is deploying have returned
\* so far.
ReplayOf(me) ==
    IF "replay" \in DOMAIN me /\ me["replay"][1] = Len(me.resource_statuses) + 1
    THEN me["replay"][2]
    ELSE <<>>

\* The step once the driver has run to th: suspended at its next call, or
\* through with the resource.
DeployCallWith(p, me, th, resource_config) ==
    IF th.err = "SUSPENDED"
    THEN /\ th.fault = 0
         /\ remote' = [jobs |-> th.jobs, next |-> th.next, ws |-> th.ws]
         /\ proc' = [proc EXCEPT ![p] =
                        DictUpdate(me, ("replay" :> <<Len(me.resource_statuses) + 1,
                                                     th.rets>>))]
         /\ UNCHANGED <<runs, budget>>
    ELSE DeployResourceWith(p, me, th, resource_config)

DeployCallOf(p, me, resource_config, fault) ==
    DeployCallWith(p, me,
        deploy_resource(ThreadFrom(remote, fault, ReplayOf(me), TRUE), resource_config,
                        LookupStatus(me.resource_id_to_status, resource_config),
                        me.overwrite, budget.runs),
        resource_config)

\* One remote call of the resource a process is deploying, with the local
\* steps of deploy_resource and its driver around it.
DeployCall(p) ==
    /\ proc[p].pc = "deploying"
    /\ Len(proc[p].resource_statuses) < Len(proc[p].stack_config[STACK_RESOURCES])
    /\ \E fault \in {0, Len(ReplayOf(proc[p])) + 1} :
          DeployCallOf(p, proc[p],
              proc[p].stack_config[STACK_RESOURCES][Len(proc[p].resource_statuses) + 1],
              fault)
    /\ UNCHANGED <<files, argv>>

NextConcurrent ==
    \E p \in Procs :
        \/ DeployBegin(p)
        \/ DeployCall(p)
        \/ DeployFinish(p)

SpecConcurrent == InitConcurrent /\ [][NextConcurrent]_vars

\* ------------------------------------------------------------------------
\* The validator on its own
\* ------------------------------------------------------------------------
Restrict(f, D) == [k \in D |-> f[k]]

\* JobA with every subset of its three fields.
PartialResources ==
    {Restrict(JobA, D) : D \in SUBSET {RESOURCE_ID, RESOURCE_SERVICE, RESOURCE_PROPERTIES}}

\* Documents with every subset of the two outer fields, over every list of
\* partial resources.
ValidatedDocs ==
    {Restrict([name |-> "s", resources |-> rs], D) :
        rs \in SeqsUpTo(PartialResources, MaxValidated),
        D \in SUBSET {STACK_NAME, STACK_RESOURCES}}

InitValidate ==
    /\ \E c \in ValidatedDocs : files = (ConfigPath :> c)
    /\ remote = [jobs |-> EmptyDict, next |-> FirstFreeJobId, ws |-> {}]
    /\ proc = [p \in Procs |-> Idle]
    /\ runs = <<>>
    /\ budget = [runs |-> 0, oob |-> 0, faults |-> 0, oobSince |-> FALSE]
    /\ argv = [config_path |-> ConfigPath, overwrite |-> FALSE]

\* validate_config applied to the configuration on disk.
ValidateConfig ==
    /\ runs = <<>>
    /\ runs' = <<[config |-> _load_json(argv.config_path),
                  err |-> validate_config(_load_json(argv.config_path))]>>
    /\ UNCHANGED <<files, remote, proc, budget, argv>>

NextValidate == ValidateConfig

SpecValidate == InitValidate /\ [][NextValidate]_vars

\* ------------------------------------------------------------------------
\* The workspace driver on its own
\* ------------------------------------------------------------------------
\* A workspace resource with every choice of its optional properties, over
\* local sources of several kinds: a python file, a scala file, a directory,
\* a file whose extension names no language.
WorkspaceSources == {<<"nb", "py">>, <<"nb", "scala">>, <<"dir">>, <<"data", "txt">>}

WorkspaceProperties ==
    {Restrict([source_path |-> src, path |-> <<"Users", "nb">>, language |-> "R",
               format |-> "HTML", object_type |-> ot],
              {"source_path", "path"} \cup D) :
        src \in WorkspaceSources,
        ot \in {"NOTEBOOK", "DIRECTORY"},
        D \in SUBSET {"language", "format", "object_type"}}

\* The physical_id of the last deployment: none, the same path, another path.
WorkspacePriors == {None, [path |-> <<"Users", "nb">>], [path |-> <<"Users", "old">>]}

InitWorkspace ==
    /\ \E wp \in WorkspaceProperties :
          files = (ConfigPath :>
                      [name |-> "s",
                       resources |-> <<[id |-> "a", service |-> WORKSPACE_SERVICE,
                                        properties |-> wp]>>])
    /\ remote = [jobs |-> EmptyDict, next |-> FirstFreeJobId, ws |-> {}]
    /\ proc = [p \in Procs |-> Idle]
    /\ runs = <<>>
    /\ budget = [runs |-> 0, oob |-> 0, faults |-> 0, oobSince |-> FALSE]
    /\ argv \in [config_path : {ConfigPath}, overwrite : BOOLEAN]

\* What a call of deploy_workspace that has run to th leaves behind.
DeployWorkspaceDone(th, resource_properties, physical_id) ==
    /\ th.fault > 0 => Faulted(th)
    /\ remote' = [jobs |-> th.jobs, next |-> th.next, ws |-> th.ws]
    /\ runs' = <<[properties |-> resource_properties, physical_id |-> physical_id,
                  overwrite |-> argv.overwrite, calls |-> th.calls, err |-> th.err,
                  ret |-> IF th.err = "" THEN th.ret ELSE None]>>

\* deploy_workspace applied to the resource of the configuration on disk.
DeployWorkspace ==
    /\ runs = <<>>
    /\ \E physical_id \in WorkspacePriors : \E fault \in 0..MaxCalls :
          DeployWorkspaceDone(
              deploy_workspace(
                  Thread(remote, fault),
                  _load_json(argv.config_path)[STACK_RESOURCES][1][RESOURCE_PROPERTIES],
                  physical_id, argv.overwrite),
              _load_json(argv.config_path)[STACK_RESOURCES][1][RESOURCE_PROPERTIES],
              physical_id)
    /\ UNCHANGED <<files, proc, budget, argv>>

NextWorkspace == DeployWorkspace

SpecWorkspace == InitWorkspace /\ [][NextWorkspace]_vars

\* ------------------------------------------------------------------------
\* Resources that lack a required property
\* ------------------------------------------------------------------------
\* A job without 'name', workspace assets without 'path' or without
\* 'source_path', next to resources that have what they need; deployed for the
\* first time or with a status file that records them.
WsNoPath == [id |-> "d", service |-> "workspace",
             properties |-> [source_path |-> <<"nb", "py">>]]
WsNoSource == [id |-> "d", service |-> "workspace",
               properties |-> [path |-> <<"Users", "nb">>]]

MissingPropertyConfigs ==
    {[name |-> "s", resources |-> rs] :
        rs \in {<<NoNameJob>>, <<WsNoPath>>, <<WsNoSource>>, <<JobA>>,
                <<JobA, NoNameJob>>, <<WsA, WsNoPath>>, <<JobB, WsNoSource>>}}

MissingPropertyStatusDocs ==
    { StatusDoc(<<StatusEntry("c", "jobs", [job_id |-> 1]),
                  StatusEntry("d", "workspace", [path |-> <<"Users", "nb">>])>>),
      StatusDoc(<<StatusEntry("c", "jobs", [job_id |-> 4])>>) }

InitMissingProperty ==
    /\ \E c \in MissingPropertyConfigs :
       \E s \in {<<>>} \cup {<<d>> : d \in MissingPropertyStatusDocs} :
          files = IF s = <<>>
                  THEN (ConfigPath :> c)
                  ELSE (ConfigPath :> c)
                           @@ (_generate_stack_status_path(ConfigPath) :> s[1])
    /\ remote \in InitRemotes
    /\ proc = [p \in Procs |-> Idle]
    /\ runs = <<>>
    /\ budget = [runs |-> 0, oob |-> 0, faults |-> 0, oobSince |-> FALSE]
    /\ argv \in [config_path : {ConfigPath}, overwrite : BOOLEAN]

NextMissingProperty ==
    \/ DeployBegin(MainProc)
    \/ DeployResource(MainProc)
    \/ DeployFinish(MainProc)

SpecMissingProperty == InitMissingProperty /\ [][NextMissingProperty]_vars

\* ------------------------------------------------------------------------
\* Config paths and the working directory
\* ------------------------------------------------------------------------
\* A path string is the sequence of its tokens: "/" and "." stand for
\* themselves, any other token is a run of characters without either.  A
\* directory, and the absolute name of a file, is the sequence of the names
\* under the root, each name a sequence of tokens.
RECURSIVE SplitOn(_, _)
\* str.split(sep)
SplitOn(s, sep) ==
    IF \A i \in 1..Len(s) : s[i] # sep
    THEN <<s>>
    ELSE <<SubSeq(s, 1, (CHOOSE i \in 1..Len(s) :
                            s[i] = sep /\ \A j \in 1..(i - 1) : s[j] # sep) - 1)>>
         \o SplitOn(SubSeq(s, (CHOOSE i \in 1..Len(s) :
                                  s[i] = sep /\ \A j \in 1..(i - 1) : s[j] # sep) + 1,
                           Len(s)), sep)

RECURSIVE JoinWith(_, _)
\* sep.join(pieces)
JoinWith(pieces, sep) ==
    IF pieces = <<>> THEN <<>>
    ELSE IF Len(pieces) = 1 THEN pieces[1]
    ELSE pieces[1] \o <<sep>> \o JoinWith(Tail(pieces), sep)

\* list.insert(-1, x): x goes before the last piece, and before the only
\* piece when there is one.
InsertBeforeLast(pieces, x) ==
    SubSeq(pieces, 1, Len(pieces) - 1) \o <<x>>
        \o SubSeq(pieces, Len(pieces), Len(pieces))

\* _generate_stack_status_path on a path string: split on '.', insert the
\* piece 'deployed', join.
StatusPathOf(stack_path) ==
    JoinWith(InsertBeforeLast(SplitOn(stack_path, "."), <<STACK_STATUS_INSERT>>), ".")

isabs(path) == path # <<>> /\ path[1] = "/"

RECURSIVE normpath(_, _)
\* os.path.normpath of the names left, under the directory done: empty names
\* and '.' are dropped, '..' goes up (the root is its own parent).
normpath(done, left) ==
    IF left = <<>> THEN done
    ELSE IF Head(left) \in {<<>>, <<".">>} THEN normpath(done, Tail(left))
    ELSE IF Head(left) = <<".", ".">>
         THEN normpath(SubSeq(done, 1, Len(done) - 1), Tail(left))
    ELSE normpath(Append(done, Head(left)), Tail(left))

\* os.path.abspath(path) in the working directory cwd; it is also the file
\* that open(path) reaches there.
abspath(path, cwd) ==
    IF isabs(path) THEN normpath(<<>>, SplitOn(path, "/"))
    ELSE normpath(cwd, SplitOn(path, "/"))

\* config_dir of deploy: os.path.dirname(os.path.abspath(config_path))
config_dir(config_path, cwd) ==
    SubSeq(abspath(config_path, cwd), 1, Len(abspath(config_path, cwd)) - 1)

StackJson == <<"stack", ".", "json">>
DirW == << <<"w">> >>
DirSub == << <<"w">>, <<"sub">> >>
DirSubSub == << <<"w">>, <<"sub">>, <<"sub">> >>

\* The directories a caller stands in, and the paths it passes.
CallerDirs == {DirW, DirSub}
ConfigPaths ==
    { StackJson,
      <<".", "/">> \o StackJson,
      <<"sub", "/">> \o StackJson,
      <<".", ".", "/", "sub", "/">> \o StackJson,
      <<"/", "w", "/", "sub", "/">> \o StackJson }

\* The places a stack.json can be at, each with a stack of its own name.
ConfigPlaces == {Append(d, StackJson) : d \in {DirW, DirSub, DirSubSub}}
ConfigAt(place) ==
    [name |-> IF place = Append(DirW, StackJson) THEN "at_w"
              ELSE IF place = Append(DirSub, StackJson) THEN "at_sub"
              ELSE "at_sub_sub",
     resources |-> <<JobA>>]

\* The caller's working directory is argv.cli_cwd; proc[p].cwd tells whether
\* the process is there or in the configuration's directory.
getcwd(p) ==
    IF proc[p].cwd = CliCwd THEN argv.cli_cwd
    ELSE config_dir(argv.config_path, argv.cli_cwd)

InitPath ==
    /\ \E places \in SUBSET ConfigPlaces :
          files = [f \in places |-> ConfigAt(f)]
    /\ remote = [jobs |-> EmptyDict, next |-> FirstFreeJobId, ws |-> {}]
    /\ proc = [p \in Procs |-> Idle]
    /\ runs = <<>>
    /\ budget = [runs |-> 0, oob |-> 0, faults |-> 0, oobSince |-> FALSE]
    /\ argv \in [config_path : ConfigPaths, overwrite : BOOLEAN,
                 cli_cwd : CallerDirs]

\* deploy(), lines 380-387, with the paths resolved as the operating system
\* resolves them: config_dir is computed in the caller's directory, and the
\* two files are opened after os.chdir(config_dir), so a relative config_path
\* and the status path made from it are looked up under config_dir.  The
\* status_path of the locals is the file the status path names there, which
\* is where _save_json writes before the directory is restored.
DeployBeginAt(p) ==
    /\ proc[p].pc = "idle"
    /\ budget.runs < MaxRuns
    /\ DeployBeginWith(p,
           Started(argv.config_path, argv.overwrite,
                   _load_json(abspath(argv.config_path,
                                      config_dir(argv.config_path, getcwd(p)))),
                   abspath(StatusPathOf(argv.config_path),
                           config_dir(argv.config_path, getcwd(p))),
                   _load_json(abspath(StatusPathOf(argv.config_path),
                                      config_dir(argv.config_path, getcwd(p))))))
    /\ budget' = [budget EXCEPT !.runs = @ + 1, !.oobSince = FALSE]
    /\ UNCHANGED <<files, remote, argv>>

NextPath ==
    \/ DeployBeginAt(MainProc)
    \/ DeployResource(MainProc)
    \/ DeployFinish(MainProc)

SpecPath == InitPath /\ [][NextPath]_vars

\* ------------------------------------------------------------------------
\* Claims
\* ------------------------------------------------------------------------
Keys(entries) == [i \in 1..Len(entries) |-> <<entries[i][RESOURCE_ID],
                                               entries[i][RESOURCE_SERVICE]>>]

RequiredResourceFields == {RESOURCE_ID, RESOURCE_SERVICE, RESOURCE_PROPERTIES}

HasAllFields(c) ==
    /\ STACK_NAME \in DOMAIN c
    /\ STACK_RESOURCES \in DOMAIN c
    /\ \A i \in 1..Len(c[STACK_RESOURCES]) :
          RequiredResourceFields \subseteq DOMAIN c[STACK_RESOURCES][i]

\* C5 (validation completeness): validate_config raises exactly for the
\* configurations that lack 'name', lack 'resources', or hold a resource that
\* lacks 'id', 'service' or 'properties'; it accepts every configuration that
\* has all of these fields.
C5_ValidationComplete ==
    \A k \in 1..Len(runs) : (runs[k].err = "") <=> HasAllFields(runs[k].config)

\* C5 witness: a configuration with both outer fields, whose first resource is
\* complete and whose second resource lacks only 'service', has been rejected.
C5_Witness ==
    /\ Len(runs) = 1
    /\ runs[1].err # ""
    /\ STACK_NAME \in DOMAIN runs[1].config
    /\ STACK_RESOURCES \in DOMAIN runs[1].config
    /\ Len(runs[1].config[STACK_RESOURCES]) = 2
    /\ DOMAIN runs[1].config[STACK_RESOURCES][1] = RequiredResourceFields
    /\ DOMAIN runs[1].config[STACK_RESOURCES][2] = {RESOURCE_ID, RESOURCE_PROPERTIES}

\* The i-th resource of the configuration run r deployed, and what the run
\* recorded about deploying it.
ResourceOf(r, i) == r.config[STACK_RESOURCES][i]
PropertiesOf(r, i) == ResourceOf(r, i)[RESOURCE_PROPERTIES]
IsJob(r, i) == ResourceOf(r, i)[RESOURCE_SERVICE] = JOBS_SERVICE
HasDriver(r, i) == ResourceOf(r, i)[RESOURCE_SERVICE] \in {JOBS_SERVICE, WORKSPACE_SERVICE}

\* The positions of the prior status entries with the given (id, service).
MatchingEntries(prior, key) ==
    IF Truthy(prior)
    THEN {j \in 1..Len(prior[STACK_DEPLOYED]) : Keys(prior[STACK_DEPLOYED])[j] = key}
    ELSE {}

\* C2 (identity lookup): the prior physical_id handed to the driver of a
\* resource is the physical_id of a prior status entry with the resource's
\* (id, service), wherever the resource and the entry stand in their lists, and
\* no prior physical_id is handed over when no entry has that (id, service),
\* also when an entry has the same id under another service.
C2_IdentityLookup ==
    \A k \in 1..Len(runs) : \A i \in 1..Len(runs[k].steps) :
        HasDriver(runs[k], i) =>
            LET matching == MatchingEntries(runs[k].prior, runs[k].steps[i].key)
            IN  IF matching = {}
                THEN runs[k].steps[i].prior = None
                ELSE \E j \in matching :
                        runs[k].steps[i].prior =
                            runs[k].prior[STACK_DEPLOYED][j][RESOURCE_PHYSICAL_ID]

\* C2 witness: the first resource got the physical_id of the second status
\* entry, and the second resource got none although the first status entry has
\* its id (under the other service).
C2_Witness ==
    \E k \in 1..Len(runs) :
        /\ Len(runs[k].steps) = 2
        /\ Truthy(runs[k].prior)
        /\ Len(runs[k].prior[STACK_DEPLOYED]) = 2
        /\ runs[k].steps[1].key = Keys(runs[k].prior[STACK_DEPLOYED])[2]
        /\ runs[k].steps[1].prior = [job_id |-> 1]
        /\ runs[k].steps[2].key[1] = Keys(runs[k].prior[STACK_DEPLOYED])[1][1]
        /\ runs[k].steps[2].key[2] # Keys(runs[k].prior[STACK_DEPLOYED])[1][2]
        /\ runs[k].steps[2].prior = None

\* The remote jobs that carried the name when the step began.
JobsNamed(step, job_name) ==
    {j \in DOMAIN step.before :
        "name" \in DOMAIN step.before[j] /\ step.before[j]["name"] = job_name}

CallsOf(step, op) == {c \in 1..Len(step.calls) : step.calls[c].op = op}

\* A job resource deployed without a prior physical_id, whose settings carry a
\* name, and whose search by name got an answer.
SearchedByName(r, i) ==
    /\ IsJob(r, i)
    /\ ~Truthy(r.steps[i].prior)
    /\ "name" \in DOMAIN PropertiesOf(r, i)
    /\ Len(r.steps[i].calls) >= 1
    /\ r.steps[i].calls[1].ok

\* C9 (create or adopt): without a prior physical_id the remote is searched by
\* the declared name; with no job of that name exactly one create call is made
\* and the job_id it returns becomes the physical_id; with exactly one job of
\* that name no create call is made, that job is reset to the declared settings
\* and its job_id becomes the physical_id.
C9_CreateOrAdopt ==
    \A k \in 1..Len(runs) : \A i \in 1..Len(runs[k].steps) :
        LET r == runs[k]
            step == runs[k].steps[i]
            found == JobsNamed(step, PropertiesOf(r, i)["name"])
        IN  /\ (IsJob(r, i) /\ ~Truthy(step.prior) /\ "name" \in DOMAIN PropertiesOf(r, i))
                 => /\ Len(step.calls) >= 1
                    /\ step.calls[1].op = "list"
                    /\ step.calls[1].arg = [name |-> PropertiesOf(r, i)["name"]]
            /\ (SearchedByName(r, i) /\ found = {})
                 => /\ Cardinality(CallsOf(step, "create")) = 1
                    /\ CallsOf(step, "reset") = {}
                    /\ step.calls[2] = [op |-> "create",
                                        arg |-> [new_settings |-> PropertiesOf(r, i)],
                                        ok |-> step.calls[2].ok]
                    /\ step.calls[2].ok
                         => /\ Cardinality(DOMAIN step.after \ DOMAIN step.before) = 1
                            /\ \A j \in DOMAIN step.after \ DOMAIN step.before :
                                  /\ step.after[j] = PropertiesOf(r, i)
                                  /\ step.err = "" => step.physical_id = [job_id |-> j]
            /\ (SearchedByName(r, i) /\ Cardinality(found) = 1)
                 => /\ CallsOf(step, "create") = {}
                    /\ Cardinality(CallsOf(step, "reset")) = 1
                    /\ \A j \in found :
                          /\ step.calls[2].op = "reset"
                          /\ step.calls[2].arg = [job_id |-> j,
                                                  new_settings |-> PropertiesOf(r, i)]
                          /\ step.calls[2].ok => step.after[j] = PropertiesOf(r, i)
                          /\ step.err = "" => step.physical_id = [job_id |-> j]
                    /\ DOMAIN step.after = DOMAIN step.before

\* C9 witness: one run created a job for its first resource and adopted an
\* existing job of the declared name for its second.
C9_Witness ==
    \E k \in 1..Len(runs) :
        /\ Len(runs[k].steps) = 2
        /\ runs[k].err = ""
        /\ SearchedByName(runs[k], 1)
        /\ JobsNamed(runs[k].steps[1], PropertiesOf(runs[k], 1)["name"]) = {}
        /\ CallsOf(runs[k].steps[1], "create") # {}
        /\ SearchedByName(runs[k], 2)
        /\ Cardinality(JobsNamed(runs[k].steps[2], PropertiesOf(runs[k], 2)["name"])) = 1
        /\ CallsOf(runs[k].steps[2], "reset") # {}

\* C10 (ambiguous job name): without a prior physical_id and with more than one
\* remote job of the declared name, deploying the resource fails, and neither
\* a create nor a reset call is made: the remote jobs stay as they were.
C10_AmbiguousName ==
    \A k \in 1..Len(runs) : \A i \in 1..Len(runs[k].steps) :
        (/\ SearchedByName(runs[k], i)
         /\ Cardinality(JobsNamed(runs[k].steps[i],
                                  PropertiesOf(runs[k], i)["name"])) > 1)
            => /\ runs[k].steps[i].err # ""
               /\ runs[k].err # ""
               /\ CallsOf(runs[k].steps[i], "create") = {}
               /\ CallsOf(runs[k].steps[i], "reset") = {}
               /\ runs[k].steps[i].after = runs[k].steps[i].before

\* C10 witness: a job resource met two remote jobs of its name and failed
\* with the StackError of put_job.
C10_Witness ==
    \E k \in 1..Len(runs) : \E i \in 1..Len(runs[k].steps) :
        /\ SearchedByName(runs[k], i)
        /\ Cardinality(JobsNamed(runs[k].steps[i], PropertiesOf(runs[k], i)["name"])) = 2
        /\ runs[k].steps[i].err = "StackError: Multiple jobs with the same name"

UniqueKeys(entries) ==
    \A i, j \in 1..Len(entries) : i # j => Keys(entries)[i] # Keys(entries)[j]

\* Run k wrote its status and run k+1 deployed the same configuration, with
\* nobody else touching the remote from the start of run k to the end of run
\* k+1.
DeployedTwice(k) ==
    /\ k + 1 <= Len(runs)
    /\ runs[k].wrote
    /\ runs[k + 1].config = runs[k].config
    /\ ~runs[k].oobDuring
    /\ ~runs[k + 1].oobBefore
    /\ ~runs[k + 1].oobDuring

\* C1 (idempotence): when a configuration whose resources have distinct
\* (id, service) keys is deployed twice in a row, unchanged and with no
\* out-of-band change of the remote, the second run makes no create call, resets
\* for every job resource the job the first run recorded, and records for
\* every resource the physical_id the first run recorded; it ends without an
\* error unless a remote call meets a transport error.
C1_Idempotent ==
    \A k \in 1..Len(runs) :
        (DeployedTwice(k) /\ UniqueKeys(runs[k].config[STACK_RESOURCES]))
            => /\ runs[k + 1].err \in {"", "HTTPError"}
               /\ runs[k + 1].err = "" => runs[k + 1].wrote
               /\ \A i \in 1..Len(runs[k + 1].steps) :
                     LET step == runs[k + 1].steps[i]
                         first == runs[k].status[STACK_DEPLOYED][i]
                     IN  /\ CallsOf(step, "create") = {}
                         /\ step.prior = first[RESOURCE_PHYSICAL_ID]
                         /\ step.err = ""
                              => /\ step.physical_id = first[RESOURCE_PHYSICAL_ID]
                                 /\ IsJob(runs[k + 1], i)
                                      => \E c \in CallsOf(step, "reset") :
                                            /\ step.calls[c].ok
                                            /\ step.calls[c].arg["job_id"]
                                                   = first[RESOURCE_PHYSICAL_ID]["job_id"]
               /\ runs[k + 1].wrote
                    => \A i \in 1..Len(runs[k].status[STACK_DEPLOYED]) :
                          runs[k + 1].status[STACK_DEPLOYED][i][RESOURCE_PHYSICAL_ID]
                              = runs[k].status[STACK_DEPLOYED][i][RESOURCE_PHYSICAL_ID]

\* C1 witness: a configuration of a job and a workspace resource was deployed
\* twice in a row; the first run created the job and the second run reset it.
C1_Witness ==
    /\ Len(runs) = 2
    /\ DeployedTwice(1)
    /\ runs[2].wrote
    /\ Len(runs[1].steps) = 2
    /\ IsJob(runs[1], 1)
    /\ ~IsJob(runs[1], 2)
    /\ CallsOf(runs[1].steps[1], "create") # {}
    /\ CallsOf(runs[2].steps[1], "reset") # {}
    /\ runs[2].status[STACK_DEPLOYED][1][RESOURCE_PHYSICAL_ID]
           = runs[1].status[STACK_DEPLOYED][1][RESOURCE_PHYSICAL_ID]

\* A job resource deployed with a prior physical_id whose job the remote no
\* longer has, with no transport error on the way and at most one remote job
\* of the declared name.
StalePhysicalId(r, i) ==
    /\ IsJob(r, i)
    /\ Truthy(r.steps[i].prior)
    /\ "job_id" \in DOMAIN r.steps[i].prior
    /\ r.steps[i].prior["job_id"] \notin DOMAIN r.steps[i].before
    /\ "name" \in DOMAIN PropertiesOf(r, i)
    /\ Cardinality(JobsNamed(r.steps[i], PropertiesOf(r, i)["name"])) <= 1
    /\ r.steps[i].err # "HTTPError"

\* C3 (fresh-create fallback): a job resource whose prior physical_id names a
\* job the remote no longer has is deployed without an error and ends with a
\* new physical_id that names an existing remote job.
C3_FreshCreateFallback ==
    \A k \in 1..Len(runs) : \A i \in 1..Len(runs[k].steps) :
        StalePhysicalId(runs[k], i)
            => /\ runs[k].steps[i].err = ""
               /\ runs[k].steps[i].physical_id # runs[k].steps[i].prior
               /\ runs[k].steps[i].physical_id["job_id"] \in DOMAIN runs[k].steps[i].after

\* The positions of the resources of run r whose deployment met a transport
\* error.
TransportErrors(r) == {i \in 1..Len(r.steps) : r.steps[i].err = "HTTPError"}

RunEnds == Len(runs') = Len(runs) + 1
EndedRun == runs'[Len(runs')]

InvalidInput(r) ==
    \/ validate_config(r.config) # ""
    \/ r.priorExists /\ validate_status(r.prior) # ""

\* C6 (fail-fast validation): with an invalid configuration, or with a status
\* file that is present and invalid, deploy ends with an error before any
\* resource is deployed and writes no status file.
C6_FailFast ==
    \A k \in 1..Len(runs) :
        InvalidInput(runs[k])
            => /\ runs[k].err # ""
               /\ runs[k].steps = <<>>
               /\ ~runs[k].wrote

\* Two resources of the configuration, or two entries of the prior status,
\* share their (id, service).
DuplicateKeys(r) ==
    \/ HasAllFields(r.config) /\ ~UniqueKeys(r.config[STACK_RESOURCES])
    \/ /\ Truthy(r.prior)
       /\ validate_status(r.prior) = ""
       /\ ~UniqueKeys(r.prior[STACK_DEPLOYED])

\* C7 (identity-key uniqueness): a configuration or a prior status with a
\* duplicated (id, service) is rejected before any resource is deployed, and
\* so every status that deploy produces has pairwise distinct keys.
C7_UniqueKeysEnforced ==
    \A k \in 1..Len(runs) :
        /\ DuplicateKeys(runs[k]) => runs[k].err # "" /\ runs[k].steps = <<>>
        /\ runs[k].wrote => UniqueKeys(runs[k].status[STACK_DEPLOYED])

\* C8 as the specification states it (stale status retention): every entry of
\* the prior status is still present, by its (id, service), in the status a
\* successful deploy produces.
C8_StaleRetained ==
    \A k \in 1..Len(runs) :
        (runs[k].wrote /\ Truthy(runs[k].prior))
            => \A j \in 1..Len(runs[k].prior[STACK_DEPLOYED]) :
                  \E i \in 1..Len(runs[k].status[STACK_DEPLOYED]) :
                      Keys(runs[k].status[STACK_DEPLOYED])[i]
                          = Keys(runs[k].prior[STACK_DEPLOYED])[j]

\* C8, amended (the status follows the configuration): the status a successful
\* deploy produces and saves holds entries only for the resources of the
\* configuration deployed in that run, so a prior entry whose resource has left
\* the configuration is dropped; deploying deletes no remote job.
C8_StatusFollowsConfig ==
    \A k \in 1..Len(runs) :
        /\ runs[k].wrote
             => \A i \in 1..Len(runs[k].status[STACK_DEPLOYED]) :
                   \E j \in 1..Len(runs[k].config[STACK_RESOURCES]) :
                       Keys(runs[k].status[STACK_DEPLOYED])[i]
                           = Keys(runs[k].config[STACK_RESOURCES])[j]
        /\ (k = Len(runs) /\ runs[k].wrote /\ \A p \in Procs : proc[p].pc = "idle")
             => _load_json(_generate_stack_status_path(argv.config_path)) = runs[k].status
        /\ \A i \in 1..Len(runs[k].steps) :
              DOMAIN runs[k].steps[i].before \subseteq DOMAIN runs[k].steps[i].after

\* C8 witness: a run saved a status that lacks an entry of its prior status,
\* whose job still exists remotely.
C8_Witness ==
    \E k \in 1..Len(runs) :
        /\ runs[k].wrote
        /\ Truthy(runs[k].prior)
        /\ \E j \in 1..Len(runs[k].prior[STACK_DEPLOYED]) :
              /\ \A i \in 1..Len(runs[k].status[STACK_DEPLOYED]) :
                    Keys(runs[k].status[STACK_DEPLOYED])[i]
                        # Keys(runs[k].prior[STACK_DEPLOYED])[j]
              /\ "job_id" \in DOMAIN runs[k].prior[STACK_DEPLOYED][j][RESOURCE_PHYSICAL_ID]
              /\ runs[k].prior[STACK_DEPLOYED][j][RESOURCE_PHYSICAL_ID]["job_id"]
                     \in DOMAIN remote.jobs

\* A job resource deployed with a prior physical_id whose job the remote has.
TrackedJobExists(r, i) ==
    /\ IsJob(r, i)
    /\ Truthy(r.steps[i].prior)
    /\ "job_id" \in DOMAIN r.steps[i].prior
    /\ r.steps[i].prior["job_id"] \in DOMAIN r.steps[i].before

\* C11 (update in place): a job resource with a non-empty prior physical_id
\* whose remote job exists is deployed by one reset of exactly that job_id with
\* the declared settings, with no create and no search by name, and ends with
\* the physical_id it was given.
C11_UpdateInPlace ==
    \A k \in 1..Len(runs) : \A i \in 1..Len(runs[k].steps) :
        TrackedJobExists(runs[k], i)
            => /\ CallsOf(runs[k].steps[i], "create") = {}
               /\ CallsOf(runs[k].steps[i], "list") = {}
               /\ CallsOf(runs[k].steps[i], "reset") = {1}
               /\ runs[k].steps[i].calls[1].arg
                     = [job_id |-> runs[k].steps[i].prior["job_id"],
                        new_settings |-> PropertiesOf(runs[k], i)]
               /\ DOMAIN runs[k].steps[i].after = DOMAIN runs[k].steps[i].before
               /\ runs[k].steps[i].err = ""
                     => /\ runs[k].steps[i].physical_id
                              = [job_id |-> runs[k].steps[i].prior["job_id"]]
                        /\ runs[k].steps[i].after[runs[k].steps[i].prior["job_id"]]
                              = PropertiesOf(runs[k], i)

\* C11 witness: a tracked job with other settings than the declared ones was
\* updated in place.
C11_Witness ==
    \E k \in 1..Len(runs) : \E i \in 1..Len(runs[k].steps) :
        /\ TrackedJobExists(runs[k], i)
        /\ runs[k].steps[i].err = ""
        /\ runs[k].steps[i].before[runs[k].steps[i].prior["job_id"]]
               # PropertiesOf(runs[k], i)
        /\ runs[k].steps[i].physical_id = runs[k].steps[i].prior

\* C12 (declaration order): the i-th resource a run deploys is the i-th
\* resource of the configuration, each resource starting from the remote state
\* the one before it left; a completed run has one deployed entry per
\* resource, deployed[i] carrying the id and service of resources[i] and the
\* physical_id the i-th deployment returned.
C12_DeclarationOrder ==
    \A k \in 1..Len(runs) :
        runs[k].steps # <<>>
            => /\ Len(runs[k].steps) <= Len(runs[k].config[STACK_RESOURCES])
               /\ \A i \in 1..Len(runs[k].steps) :
                     runs[k].steps[i].key = Keys(runs[k].config[STACK_RESOURCES])[i]
               /\ ~runs[k].oobDuring
                     => \A i \in 1..(Len(runs[k].steps) - 1) :
                           runs[k].steps[i + 1].before = runs[k].steps[i].after
               /\ runs[k].wrote
                     => /\ Len(runs[k].steps) = Len(runs[k].config[STACK_RESOURCES])
                        /\ Keys(runs[k].status[STACK_DEPLOYED])
                              = Keys(runs[k].config[STACK_RESOURCES])
                        /\ \A i \in 1..Len(runs[k].steps) :
                              runs[k].status[STACK_DEPLOYED][i][RESOURCE_PHYSICAL_ID]
                                  = runs[k].steps[i].physical_id

\* C12 witness: a completed run over two resources with different keys, both
\* of which made remote calls.
C12_Witness ==
    \E k \in 1..Len(runs) :
        /\ runs[k].wrote
        /\ Len(runs[k].steps) = 2
        /\ runs[k].steps[1].key # runs[k].steps[2].key
        /\ runs[k].steps[1].calls # <<>>
        /\ runs[k].steps[2].calls # <<>>

\* The status file of the stack, as a one-element sequence when it exists.
StatusFile(fs) ==
    IF _generate_stack_status_path(argv.config_path) \in DOMAIN fs
    THEN <<fs[_generate_stack_status_path(argv.config_path)]>>
    ELSE <<>>

\* C13 (single write at the end): the status file changes only in the step
\* that ends a run without an error, after every resource of the configuration
\* has been deployed, and then holds the status of that run; a run that ends
\* with an error leaves every file as it was, and no file changes while a run
\* is between two resources.
C13_SingleWriteAtEnd ==
    [][/\ StatusFile(files') # StatusFile(files)
            => /\ RunEnds
               /\ EndedRun.err = ""
               /\ EndedRun.wrote
               /\ Len(EndedRun.steps) = Len(EndedRun.config[STACK_RESOURCES])
               /\ StatusFile(files') = <<EndedRun.status>>
       /\ (RunEnds /\ EndedRun.err # "") => files' = files /\ ~EndedRun.wrote
       /\ (\E p \in Procs : proc[p].pc = "deploying" /\ proc'[p].pc = "deploying")
            => files' = files]_vars

\* C13 witness: a run created a job for its first resource and aborted on the
\* second; the job exists remotely and the status file is still the one the
\* run started from.
C13_Witness ==
    /\ runs # <<>>
    /\ \A p \in Procs : proc[p].pc = "idle"
    /\ Len(runs[Len(runs)].steps) = 2
    /\ runs[Len(runs)].err # ""
    /\ \E c \in CallsOf(runs[Len(runs)].steps[1], "create") :
          runs[Len(runs)].steps[1].calls[c].ok
    /\ runs[Len(runs)].steps[1].physical_id["job_id"] \in DOMAIN remote.jobs
    /\ StatusFile(files) = IF runs[Len(runs)].priorExists
                           THEN <<runs[Len(runs)].prior>> ELSE <<>>

\* C14 (working directory restore): a process that is not inside a deploy call
\* is in the directory the caller was in, however its deploy calls ended: with
\* a validation error, with an exception while deploying a resource, or
\* normally; inside the call it is in the directory of the configuration.
C14_WorkingDirectoryRestored ==
    \A p \in Procs :
        /\ proc[p].pc = "idle" => proc[p].cwd = CliCwd
        /\ proc[p].pc = "deploying" => proc[p].cwd = ConfigDir

\* C14 witness: one deploy call raised while deploying a resource, another
\* returned normally, and the process is back in the caller's directory.
C14_Witness ==
    /\ \E k \in 1..Len(runs) :
          /\ runs[k].proc = MainProc
          /\ runs[k].err # ""
          /\ runs[k].steps # <<>>
    /\ \E k \in 1..Len(runs) :
          /\ runs[k].proc = MainProc
          /\ runs[k].wrote
          /\ runs[k].steps # <<>>
    /\ proc[MainProc].pc = "idle"
    /\ proc[MainProc].cwd = CliCwd

\* C15 (first deploy without a status file): when the stack has no status
\* file, the prior status deploy works with is the absent one; with a valid
\* configuration the run gets to its resources without a validation error, and
\* every resource is handed to its driver with no prior physical_id.
C15_NoStatusFile ==
    \A k \in 1..Len(runs) :
        ~runs[k].priorExists
            => /\ runs[k].prior = EmptyDict
               /\ validate_config(runs[k].config) = ""
                     => /\ runs[k].err # "" => runs[k].steps # <<>>
                        /\ runs[k].err = ""
                              => Len(runs[k].steps) = Len(runs[k].config[STACK_RESOURCES])
               /\ \A i \in 1..Len(runs[k].steps) : runs[k].steps[i].prior = None

\* C15 witness: a run without a status file created a job for its resource
\* and saved the first status.
C15_Witness ==
    \E k \in 1..Len(runs) :
        /\ ~runs[k].priorExists
        /\ runs[k].wrote
        /\ runs[k].steps # <<>>
        /\ CallsOf(runs[k].steps[1], "create") # {}

\* The positions of the resources of run r that were reached and whose service
\* has no driver.
UnsupportedSteps(r) == {i \in 1..Len(r.steps) : ~HasDriver(r, i)}

\* C16 as the specification states it (unsupported service, lenient): a
\* resource of an unsupported service makes no remote call, is recorded in the
\* status with success=false and an error_message, and the run goes on to the
\* resources after it and saves the status.
C16_UnsupportedServiceRecorded ==
    \A k \in 1..Len(runs) : \A i \in UnsupportedSteps(runs[k]) :
        /\ runs[k].steps[i].calls = <<>>
        /\ Len(runs[k].steps) = Len(runs[k].config[STACK_RESOURCES])
        /\ runs[k].wrote
        /\ "success" \in DOMAIN runs[k].status[STACK_DEPLOYED][i]
        /\ runs[k].status[STACK_DEPLOYED][i]["success"] = FALSE
        /\ "error_message" \in DOMAIN runs[k].status[STACK_DEPLOYED][i]

\* C16, amended (unsupported service, strict): a resource of an unsupported
\* service makes no remote call and raises the unsupported-service StackError,
\* which ends the run: it is the last resource the run reaches, the run
\* reports that error and saves no status.
C16_UnsupportedServiceAborts ==
    \A k \in 1..Len(runs) : \A i \in UnsupportedSteps(runs[k]) :
        /\ runs[k].steps[i].calls = <<>>
        /\ runs[k].steps[i].after = runs[k].steps[i].before
        /\ runs[k].steps[i].err = "StackError: Resource service not supported"
        /\ i = Len(runs[k].steps)
        /\ runs[k].err = "StackError: Resource service not supported"
        /\ ~runs[k].wrote
        /\ runs[k].status = EmptyDict

\* C16 witness: the first of two resources has an unsupported service, and the
\* run ended without reaching the second.
C16_Witness ==
    \E k \in 1..Len(runs) :
        /\ UnsupportedSteps(runs[k]) = {1}
        /\ Len(runs[k].config[STACK_RESOURCES]) = 2
        /\ HasDriver(runs[k], 2)

\* The runs that saved a status, in the order in which they saved it.
Writers == {k \in 1..Len(runs) : runs[k].wrote}
LastWriter == CHOOSE k \in Writers : \A j \in Writers : j <= k

\* Run j had started before run k ended and the other way round: the two
\* belong to different processes and neither saw the status the other saved.
Overlapping(j, k) ==
    /\ runs[j].proc # runs[k].proc
    /\ runs[j].priorExists = runs[k].priorExists
    /\ runs[j].prior = runs[k].prior

GivenOr(p, key, inferred) == IF key \in DOMAIN p THEN p[key] ELSE inferred

InferredLanguageAndFormat(p) ==
    IF to_language_and_format(p["source_path"]) = None
    THEN <<None, None>>
    ELSE to_language_and_format(p["source_path"])

\* The client calls a workspace deployment of properties p makes, in order.
NotebookCalls(p, overwrite) ==
    << [op |-> "mkdirs", arg |-> [path |-> dirname(p["path"])]],
       [op |-> "import_workspace",
        arg |-> [source_path |-> p["source_path"], target_path |-> p["path"],
                 language |-> GivenOr(p, "language", InferredLanguageAndFormat(p)[1]),
                 fmt |-> GivenOr(p, "format", InferredLanguageAndFormat(p)[2]),
                 overwrite |-> overwrite]],
       [op |-> "get_status", arg |-> [path |-> p["path"]]] >>

DirectoryCalls(p, overwrite) ==
    << [op |-> "import_workspace_dir",
        arg |-> [source_path |-> p["source_path"], target_path |-> p["path"],
                 overwrite |-> overwrite, exclude_hidden_files |-> TRUE]],
       [op |-> "get_status", arg |-> [path |-> p["path"]]] >>

ExpectedCalls(p, overwrite) ==
    IF GivenOr(p, "object_type",
               IF p["source_path"] \in LocalDirs THEN "DIRECTORY" ELSE "NOTEBOOK")
           = "NOTEBOOK"
    THEN NotebookCalls(p, overwrite)
    ELSE DirectoryCalls(p, overwrite)

\* C18 (workspace driver dispatch): deploy_workspace imports a NOTEBOOK by one
\* mkdirs of the parent of the target and one single-object import, and a
\* DIRECTORY by one directory import alone; object type, language and format
\* are the given properties, else those inferred from the local source, and
\* the import carries the caller's overwrite flag.  The calls made are the
\* expected ones up to the call that failed, all of them when none failed.
C18_WorkspaceDispatch ==
    \A k \in 1..Len(runs) :
        /\ Len(runs[k].calls) <= Len(ExpectedCalls(runs[k].properties, runs[k].overwrite))
        /\ \A c \in 1..Len(runs[k].calls) :
              /\ runs[k].calls[c].op
                    = ExpectedCalls(runs[k].properties, runs[k].overwrite)[c].op
              /\ runs[k].calls[c].arg
                    = ExpectedCalls(runs[k].properties, runs[k].overwrite)[c].arg
        /\ (\A c \in 1..Len(runs[k].calls) : runs[k].calls[c].ok)
              => Len(runs[k].calls)
                    = Len(ExpectedCalls(runs[k].properties, runs[k].overwrite))
        /\ runs[k].err = "" => runs[k].ret[1] = [path |-> runs[k].properties["path"]]

\* C18 witness: a local python file deployed as a DIRECTORY because the
\* properties say so, with the overwrite flag set, and without an error.
C18_Witness ==
    \E k \in 1..Len(runs) :
        /\ runs[k].err = ""
        /\ runs[k].overwrite
        /\ runs[k].properties["source_path"] = <<"nb", "py">>
        /\ "object_type" \in DOMAIN runs[k].properties
        /\ runs[k].properties["object_type"] = "DIRECTORY"
        /\ runs[k].calls[1].op = "import_workspace_dir"
        /\ runs[k].calls[1].arg["overwrite"]

\* C19 (assembler self-check): the status document of a run that deployed
\* every resource of a valid configuration passes validate_status, so the
\* final check of deploy_config never fails and the document is returned and
\* saved; it has name, resources and deployed, and each deployed entry has id,
\* service and physical_id.
C19_AssemblerSelfCheck ==
    \A k \in 1..Len(runs) :
        /\ runs[k].wrote
              => /\ validate_status(runs[k].status) = ""
                 /\ {STACK_NAME, STACK_RESOURCES, STACK_DEPLOYED}
                        \subseteq DOMAIN runs[k].status
                 /\ \A i \in 1..Len(runs[k].status[STACK_DEPLOYED]) :
                       {RESOURCE_ID, RESOURCE_SERVICE, RESOURCE_PHYSICAL_ID}
                           \subseteq DOMAIN runs[k].status[STACK_DEPLOYED][i]
        /\ ( /\ validate_config(runs[k].config) = ""
             /\ ~(Truthy(runs[k].prior) /\ validate_status(runs[k].prior) # "")
             /\ Len(runs[k].steps) = Len(runs[k].config[STACK_RESOURCES])
             /\ \A i \in 1..Len(runs[k].steps) : runs[k].steps[i].err = "" )
              => runs[k].err = "" /\ runs[k].wrote

\* C19 witness: a run with a valid prior status deployed two resources and
\* returned a status with two entries.
C19_Witness ==
    \E k \in 1..Len(runs) :
        /\ runs[k].wrote
        /\ Truthy(runs[k].prior)
        /\ Len(runs[k].status[STACK_DEPLOYED]) = 2

\* C20 (configuration is read-only): when deploy_config has ended, the
\* configuration object it was given has exactly the keys and values it had
\* when it was loaded; it has gained no 'deployed' and no 'cli_version' key.
C20_ConfigReadOnly ==
    \A k \in 1..Len(runs) :
        /\ runs[k].stack_config = runs[k].config
        /\ STACK_DEPLOYED \notin DOMAIN runs[k].stack_config
        /\ CLI_VERSION_KEY \notin DOMAIN runs[k].stack_config

\* The required properties that resource i of run r lacks.
MissingProperties(r, i) ==
    IF IsJob(r, i) THEN {"name"} \ DOMAIN PropertiesOf(r, i)
    ELSE IF ResourceOf(r, i)[RESOURCE_SERVICE] = WORKSPACE_SERVICE
    THEN {"source_path", "path"} \ DOMAIN PropertiesOf(r, i)
    ELSE {}

MissingPropertyErrors ==
    {"StackError: Please supply 'name' in job resource",
     "StackError: 'source_path' doesn't exist in workspace resource properties",
     "StackError: 'path' doesn't exist in workspace resource properties"}

\* C21 (missing required property): a resource whose properties lack a
\* required key ends with a missing-property StackError and without a single
\* remote call, with or without a prior physical_id.
C21_MissingPropertyRejected ==
    \A k \in 1..Len(runs) : \A i \in 1..Len(runs[k].steps) :
        MissingProperties(runs[k], i) # {}
            => /\ runs[k].steps[i].calls = <<>>
               /\ runs[k].steps[i].err \in MissingPropertyErrors

\* Run k ended with an error and saved nothing, and run k+1 deployed the same
\* configuration, with nobody else touching the remote from the start of run k
\* to the end of run k+1.
RedeployedAfterAbort(k) ==
    /\ k + 1 <= Len(runs)
    /\ runs[k].err # ""
    /\ ~runs[k].wrote
    /\ runs[k + 1].config = runs[k].config
    /\ ~runs[k].oobDuring
    /\ ~runs[k + 1].oobBefore
    /\ ~runs[k + 1].oobDuring

\* The jobs a step created, and the jobs of a name the remote has after it.
CreatedJobs(step) == DOMAIN step.after \ DOMAIN step.before
JobsNamedAfter(step, job_name) ==
    {j \in DOMAIN step.after :
        "name" \in DOMAIN step.after[j] /\ step.after[j]["name"] = job_name}

\* C22 (re-deploy after an aborted run does not duplicate): when a run created
\* a job for resource i and then ended with an error, saving no status, the
\* next run of the same configuration makes no create call for resource i; it
\* resets the job the aborted run created and records it as the physical_id,
\* and the remote has one job of that name.
C22_NoDuplicateAfterAbort ==
    \A k \in 1..Len(runs) :
        RedeployedAfterAbort(k)
            => \A i \in 1..Len(runs[k].steps) :
                  (IsJob(runs[k], i) /\ CreatedJobs(runs[k].steps[i]) # {}
                                     /\ i <= Len(runs[k + 1].steps))
                     => /\ CallsOf(runs[k + 1].steps[i], "create") = {}
                        /\ CreatedJobs(runs[k + 1].steps[i]) = {}
                        /\ runs[k + 1].steps[i].err \in {"", "HTTPError"}
                        /\ runs[k + 1].steps[i].err = ""
                              => /\ {runs[k + 1].steps[i].physical_id["job_id"]}
                                       = CreatedJobs(runs[k].steps[i])
                                 /\ \E c \in CallsOf(runs[k + 1].steps[i], "reset") :
                                       /\ runs[k + 1].steps[i].calls[c].ok
                                       /\ {runs[k + 1].steps[i].calls[c].arg["job_id"]}
                                              = CreatedJobs(runs[k].steps[i])
                                 /\ Cardinality(JobsNamedAfter(runs[k + 1].steps[i],
                                                   PropertiesOf(runs[k], i)["name"])) = 1

\* The deployed entries of a status document that belong to job resources.
JobEntries(status) ==
    {i \in 1..Len(status[STACK_DEPLOYED]) :
        status[STACK_DEPLOYED][i][RESOURCE_SERVICE] = JOBS_SERVICE}

\* C23 (no physical-id aliasing): in every status document deploy produces,
\* two job entries with different resource ids have different job_ids, so no
\* remote job is tracked by two resources.
C23_NoAliasing ==
    \A k \in 1..Len(runs) :
        runs[k].wrote
            => \A i, j \in JobEntries(runs[k].status) :
                  runs[k].status[STACK_DEPLOYED][i][RESOURCE_ID]
                        # runs[k].status[STACK_DEPLOYED][j][RESOURCE_ID]
                     => runs[k].status[STACK_DEPLOYED][i][RESOURCE_PHYSICAL_ID]["job_id"]
                           # runs[k].status[STACK_DEPLOYED][j][RESOURCE_PHYSICAL_ID]["job_id"]

\* The file the caller's path denotes in the caller's directory, and its
\* sibling with 'deployed' before the final extension.
DenotedConfig == abspath(argv.config_path, argv.cli_cwd)
DenotedStatus ==
    Append(SubSeq(DenotedConfig, 1, Len(DenotedConfig) - 1),
           SubSeq(DenotedConfig[Len(DenotedConfig)], 1,
                  Len(DenotedConfig[Len(DenotedConfig)]) - 1)
               \o <<STACK_STATUS_INSERT, ".">>
               \o <<DenotedConfig[Len(DenotedConfig)]
                        [Len(DenotedConfig[Len(DenotedConfig)])]>>)

\* C24 (config path resolution): every run deploys the content of the file
\* the caller's path denotes from the caller's working directory ({} when no
\* such file exists), and the only file deploy reads as status or writes is
\* the sibling of that file with 'deployed' before its final extension: a run
\* that saved left its status there, and no other file has appeared.
C24_PathResolution ==
    /\ \A k \in 1..Len(runs) :
          /\ runs[k].config = _load_json(DenotedConfig)
          /\ runs[k].priorExists
                => k > 1 /\ runs[k - 1].wrote /\ runs[k].prior = runs[k - 1].status
    /\ (runs # <<>> /\ runs[Len(runs)].wrote)
          => _load_json(DenotedStatus) = runs[Len(runs)].status
    /\ DOMAIN files \subseteq ConfigPlaces \cup {DenotedStatus}

====
